---------------------------- MODULE Spec2Model ----------------------------
(***************************************************************************)
(* CropCheck AI (src/app.py): a Streamlit script that chains five JamAI    *)
(* action tables.  The script is re-executed from top to bottom on every   *)
(* user interaction; st.session_state survives across the executions.      *)
(*                                                                         *)
(* The model follows one browser session.  A script run is split at its    *)
(* blocking calls to call_action_table: pc says whether the script is idle *)
(* (between two runs) or blocked in the call for table k.                  *)
(*                                                                         *)
(* Texts are TLA+ strings.  Every output column of the gateway has one     *)
(* representative non-empty text of its own, so that the origin of a value *)
(* found in a request can be read off the value.                           *)
(***************************************************************************)
EXTENDS Naturals, Sequences, FiniteSets, TLC

VARIABLES
    ss,        \* st.session_state: the 15 keys initialised at app.py:102-119
    pc,        \* position of the script: "idle" or "t1".."t5" (blocked in table k)
    calls,     \* requests handed to call_action_table by the current/last run
    last,      \* the current/last run: button, outcome, upload, pre-empted call
    dirty,     \* the current/last run changed image_uri, description or an output
    produced,  \* per output key, the text its table returned most recently
    root_cause, \* the script's variable root_cause (app.py:262) while a run needs it
    answer_box, \* the text the answer box (app.py:225) holds for a run that has yet to draw it
    pending    \* the button clicked while a call was outstanding, not yet run

vars == <<ss, pc, calls, last, dirty, produced, root_cause, answer_box, pending>>

---------------------------------------------------------------------------
(* Table identifiers, app.py:20-24 *)
TABLE_DETECT   == "1. Detect The Problem"
TABLE_FOLLOWUP == "2. Follow-Up Question"
TABLE_CAUSES   == "3. Determine The Causes"
TABLE_SOLUTION == "4. Proposed Solution"
TABLE_FINAL    == "5. Final Conclusion"

Stages == 1..5

(* TableOf with the follow-up call sent to the table of stage 1. *)
TableOf_DetectTwice(k) ==
    CASE k = 1 -> TABLE_DETECT
      [] k = 2 -> TABLE_DETECT
      [] k = 3 -> TABLE_CAUSES
      [] k = 4 -> TABLE_SOLUTION
      [] k = 5 -> TABLE_FINAL

TableOf(k) ==
    CASE k = 1 -> TABLE_DETECT
      [] k = 2 -> TABLE_FOLLOWUP
      [] k = 3 -> TABLE_CAUSES
      [] k = 4 -> TABLE_SOLUTION
      [] k = 5 -> TABLE_FINAL

PcOf(k) ==
    CASE k = 1 -> "t1" [] k = 2 -> "t2" [] k = 3 -> "t3" [] k = 4 -> "t4" [] k = 5 -> "t5"

StageOfPc(p) == CHOOSE k \in Stages : PcOf(k) = p

(* Session-state keys, app.py:102-118 *)
SessionKeys ==
    {"crop_type", "initial_guess", "conf_problem", "clarifying_q", "purpose_q",
     "user_answer", "root_cause", "reasoning", "recommended_solution",
     "safety_avoid", "conf_solution", "summary", "future_tips", "description",
     "image_uri"}

(* OutputKeys with the purpose of the question stored under "summary". *)
OutputKeys_PurposeAsSummary(k) ==
    CASE k = 1 -> <<"crop_type", "initial_guess", "conf_problem">>
      [] k = 2 -> <<"clarifying_q", "summary">>
      [] k = 3 -> <<"root_cause", "reasoning">>
      [] k = 4 -> <<"recommended_solution", "safety_avoid", "conf_solution">>
      [] k = 5 -> <<"summary", "future_tips">>

(* The session-state keys written from the columns of table k, in the order *)
(* of the assignments, and the column each one is read from.                *)
OutputKeys(k) ==
    CASE k = 1 -> <<"crop_type", "initial_guess", "conf_problem">>
      [] k = 2 -> <<"clarifying_q", "purpose_q">>
      [] k = 3 -> <<"root_cause", "reasoning">>
      [] k = 4 -> <<"recommended_solution", "safety_avoid", "conf_solution">>
      [] k = 5 -> <<"summary", "future_tips">>

OutputCols(k) ==
    CASE k = 1 -> <<"Crop Type", "Initial Problem Guess", "Confidence Score Problem">>
      [] k = 2 -> <<"Clarifying Question", "Purpose of Question">>
      [] k = 3 -> <<"Root Cause", "Reasoning">>
      [] k = 4 -> <<"Recommended Solution", "Safety or Avoid List", "Confidence Score Solution">>
      [] k = 5 -> <<"Summary", "Future Prevention Tips">>

Range(s) == {s[i] : i \in 1..Len(s)}

OutputKeySet(k) == Range(OutputKeys(k))

AllOutputKeys == UNION {OutputKeySet(k) : k \in Stages}

SessionInputKeys == {"image_uri", "description"}

---------------------------------------------------------------------------
(* Texts *)

(* What the gateway can put in a column: the column's own text. *)
TextOf(col) ==
    CASE col = "Crop Type"                 -> "mango"
      [] col = "Initial Problem Guess"     -> "anthracnose"
      [] col = "Confidence Score Problem"  -> "p80"
      [] col = "Clarifying Question"       -> "wet leaves?"
      [] col = "Purpose of Question"       -> "rule out fungus"
      [] col = "Root Cause"                -> "fungal infection"
      [] col = "Reasoning"                 -> "spots after rain"
      [] col = "Recommended Solution"      -> "copper spray"
      [] col = "Safety or Avoid List"      -> "no overhead watering"
      [] col = "Confidence Score Solution" -> "s70"
      [] col = "Summary"                   -> "summary text"
      [] col = "Future Prevention Tips"    -> "prune and airflow"

(* The value of a cell's text attribute when the attribute is None. *)
NoneText == "<None>"

(* What the user can have in a text area. *)
Whitespace == {"", " "}
DescriptionTexts == {"", " ", "dark spots"}
AnswerTexts == {"", " ", "yes, after rain"}

(* strip that leaves whitespace in place (the test of the raw text). *)
strip_Raw(s) == s

(* str.strip() on the texts above: whitespace-only texts become empty. *)
strip(s) == IF s \in Whitespace THEN "" ELSE s

(* Uploaded files (None: nothing uploaded) and the URI the store gives each. *)
NoFile == "<no file>"
Files == {"a.jpg", "b.png"}
UriOf(f) == IF f = "a.jpg" THEN "file://a.jpg" ELSE "file://b.png"

(* Credentials typed in the sidebar, app.py:96-97: project id and PAT, *)
(* both given or one of them left empty.                              *)
Credentials == {<<"proj", "pat">>, <<"", "pat">>, <<"proj", "">>}


---------------------------------------------------------------------------
(* Helpers, app.py:31-81 *)

(* get_client raises RuntimeError when a credential is empty. *)
get_client_raises(project_id, pat) == project_id = "" \/ pat = ""

(* What the file API can do with an upload: raise, answer with an object *)
(* that has no uri attribute, or answer with the file's URI.             *)
UploadResults == {"raise", "no_uri", "uri"}

(* upload_to_jamai: getattr(resp, "uri", "") of a call that did not raise. *)
upload_to_jamai(uploaded_file, resp) ==
    IF resp = "uri" THEN UriOf(uploaded_file) ELSE ""

(* A cell of a row: Python None (dict.get of a missing column) or an *)
(* object whose text attribute is a string or None.                  *)
PyNone == [is_none |-> TRUE, text |-> NoneText]

Cell(t) == [is_none |-> FALSE, text |-> t]

(* safe_text without the final "or": a text attribute of None is kept. *)
safe_text_KeepsNone(cell) == IF cell.is_none THEN "" ELSE cell.text

(* safe_text: getattr(cell, "text", "") or "" *)
safe_text(cell) ==
    LET got == IF cell.is_none THEN "" ELSE cell.text
    IN  IF got = NoneText \/ got = "" THEN "" ELSE got

(* dict.get(name): None for a missing key. *)
ColsGet(columns, name) == IF name \in DOMAIN columns THEN columns[name] ELSE PyNone

(* The shapes of row the gateway answers with: per column, a text, a cell *)
(* whose text is None, a cell whose text is empty, or no cell at all.     *)
Shapes(k) ==
    CASE k = 1 -> {<<"text", "text", "text">>, <<"absent", "none_text", "empty_text">>,
                   <<"none_text", "text", "absent">>}
      [] k = 2 -> {<<"text", "text">>, <<"empty_text", "absent">>}
      [] k = 3 -> {<<"text", "text">>, <<"absent", "none_text">>}
      [] k = 4 -> {<<"text", "text", "text">>, <<"none_text", "absent", "absent">>}
      [] k = 5 -> {<<"text", "text">>, <<"absent", "empty_text">>}

MkCell(col, kind) ==
    CASE kind = "text"       -> Cell(TextOf(col))
      [] kind = "none_text"  -> Cell(NoneText)
      [] kind = "empty_text" -> Cell("")

MkColumns(k, shape) ==
    LET cols == OutputCols(k)
        present == {i \in 1..Len(cols) : shape[i] # "absent"}
    IN  [c \in {cols[i] : i \in present} |->
            MkCell(c, shape[CHOOSE i \in present : cols[i] = c])]

(* What client.table.add_table_rows can do: raise, answer without rows, or *)
(* answer with one row.                                                    *)
GatewayResults(k) ==
    {[kind |-> "raise", rows |-> <<>>], [kind |-> "rows", rows |-> <<>>]}
    \cup {[kind |-> "rows", rows |-> <<MkColumns(k, sh)>>] : sh \in Shapes(k)}

(* call_action_table that answers a response without rows with no columns. *)
call_action_table_NoRowsOk(res) ==
    IF res.kind = "raise"
    THEN [ok |-> FALSE, columns |-> <<>>]
    ELSE [ok |-> TRUE, columns |-> IF Len(res.rows) = 0 THEN <<>> ELSE res.rows[1]]

(* call_action_table: res.rows[0].columns; rows[0] of no rows raises. *)
call_action_table(res) ==
    IF res.kind = "raise" \/ Len(res.rows) = 0
    THEN [ok |-> FALSE, columns |-> <<>>]
    ELSE [ok |-> TRUE, columns |-> res.rows[1]]

ColOfKey(k, key) ==
    LET i == CHOOSE j \in 1..Len(OutputKeys(k)) : OutputKeys(k)[j] = key
    IN  OutputCols(k)[i]

(* StoreOutputs that also empties the outputs of the stages after k. *)
StoreOutputs_ClearsLater(s, k, columns) ==
    [key \in DOMAIN s |->
        IF key \in OutputKeySet(k)
        THEN safe_text(ColsGet(columns, ColOfKey(k, key)))
        ELSE IF \E j \in Stages : j > k /\ key \in OutputKeySet(j) THEN "" ELSE s[key]]

(* The assignments st.session_state[key] = safe_text(cols.get(col)) that *)
(* follow the call of table k.                                           *)
StoreOutputs(s, k, columns) ==
    [key \in DOMAIN s |->
        IF key \in OutputKeySet(k)
        THEN safe_text(ColsGet(columns, ColOfKey(k, key)))
        ELSE s[key]]

(* Req3 with the problem guess read from the stored root cause. *)
Req3_GuessFromRootCause(s) ==
    ("Crop Type" :> s.crop_type) @@ ("Initial Problem Guess" :> s.root_cause)
    @@ ("User Answer" :> s.user_answer) @@ ("Description" :> s.description)

(* Req5 that also forwards the initial problem guess. *)
Req5_ForwardsGuess(s, local_root_cause, recommended) ==
    ("Crop Type" :> s.crop_type) @@ ("Root Cause" :> local_root_cause)
    @@ ("Initial Problem Guess" :> s.initial_guess)
    @@ ("Users Answer" :> s.user_answer) @@ ("Recommended Solution" :> recommended)

(* The request dictionaries, app.py:173-176, 201-205, 253-258, 272-277, 293-298 *)
Req1(img_uri, description) ==
    ("Crop Image" :> img_uri) @@ ("Description" :> description)

Req2(crop_type, initial_guess, conf_problem) ==
    ("Crop Type" :> crop_type) @@ ("Initial Problem Guess" :> initial_guess)
    @@ ("Confidence Score Problem" :> conf_problem)

Req3(s) ==
    ("Crop Type" :> s.crop_type) @@ ("Initial Problem Guess" :> s.initial_guess)
    @@ ("User Answer" :> s.user_answer) @@ ("Description" :> s.description)

Req4(s, local_root_cause) ==
    ("Crop Type" :> s.crop_type) @@ ("Root Cause" :> local_root_cause)
    @@ ("Initial Problem Guess" :> s.initial_guess) @@ ("User Answer" :> s.user_answer)

Req5(s, local_root_cause, recommended) ==
    ("Crop Type" :> s.crop_type) @@ ("Root Cause" :> local_root_cause)
    @@ ("Users Answer" :> s.user_answer) @@ ("Recommended Solution" :> recommended)

Call(k, data) == [table |-> TableOf(k), data |-> data]

(* A run changed a session input or a stored output. *)
Changed(s, s1) == \E key \in SessionInputKeys \cup AllOutputKeys : s[key] # s1[key]


---------------------------------------------------------------------------
(* The script, app.py:88-340, as functions from the session state a run   *)
(* starts with to the values of all variables where the run next blocks   *)
(* or ends.  pre says that the click that started the run arrived while a *)
(* call of the run before it was outstanding.                             *)

Outcomes ==
    {"done", "running", "client_error", "no_image", "no_description", "no_answer",
     "upload_error", "gateway_error", "stopped"}

Run(btn, outcome, upload, pre) ==
    [btn |-> btn, outcome |-> outcome, upload |-> upload, preempted |-> pre]

(* SetDefaults by plain assignment: every key gets its default. *)
SetDefaults_Assign(s) == [key \in SessionKeys |-> ""]

(* AnswerStep that stores the answer under "description". *)
AnswerStep_AsDescription(s, answer) ==
    IF s.clarifying_q # "" THEN [s EXCEPT !.description = answer] ELSE s

(* app.py:102-119: every run starts with setdefault for each key, which *)
(* gives a missing key its default and leaves a present key alone.       *)
SetDefaults(s) == [key \in SessionKeys |-> IF key \in DOMAIN s THEN s[key] ELSE ""]

(* app.py:218-234: with a clarifying question stored, the answer box is   *)
(* drawn and its value, the text the browser holds for it, is stored as   *)
(* user_answer.                                                           *)
AnswerStep(s, answer) ==
    IF s.clarifying_q # "" THEN [s EXCEPT !.user_answer = answer] ELSE s

(* A run that ends without blocking and without an exception; answer is *)
(* the text in the answer box.                                          *)
Ended(s, p, answer, btn, outcome, upload, pre) ==
    [ss |-> AnswerStep(s, answer), pc |-> "idle", calls |-> <<>>,
     last |-> Run(btn, outcome, upload, pre), dirty |-> FALSE,
     produced |-> p, root_cause |-> "", answer_box |-> ""]

(* Raised that also puts the session state back to its defaults. *)
Raised_ClearsSession(s, p, cs, btn, outcome, upload, pre, d) ==
    [ss |-> [key \in SessionKeys |-> ""], pc |-> "idle", calls |-> cs,
     last |-> Run(btn, outcome, upload, pre), dirty |-> d,
     produced |-> p, root_cause |-> "", answer_box |-> ""]

(* A run that an uncaught exception ends at once. *)
Raised(s, p, cs, btn, outcome, upload, pre, d) ==
    [ss |-> s, pc |-> "idle", calls |-> cs,
     last |-> Run(btn, outcome, upload, pre), dirty |-> d,
     produced |-> p, root_cause |-> "", answer_box |-> ""]

(* Step1Start with the description stored ahead of the upload. *)
Step1Start_StoresBeforeUpload(s0, p, img_file, description, answer, project_id, pat, resp, pre) ==
    LET s == SetDefaults(s0) IN
    IF get_client_raises(project_id, pat)
    THEN Ended(s, p, answer, "step1", "client_error", "none", pre)
    ELSE IF img_file = NoFile
    THEN Ended(s, p, answer, "step1", "no_image", "none", pre)
    ELSE IF strip(description) = ""
    THEN Ended(s, p, answer, "step1", "no_description", "none", pre)
    ELSE IF resp = "raise"
    THEN Raised([s EXCEPT !.description = description], p, <<>>, "step1",
                "upload_error", "raised", pre, s.description # description)
    ELSE LET img_uri == upload_to_jamai(img_file, resp)
             s1 == [s EXCEPT !.image_uri = img_uri, !.description = description]
         IN  [ss |-> s1, pc |-> "t1",
              calls |-> <<Call(1, Req1(img_uri, description))>>,
              last |-> Run("step1", "running", img_file, pre),
              dirty |-> Changed(s, s1), produced |-> p, root_cause |-> "",
              answer_box |-> answer]

(* app.py:153-178: the click on "Run Step 1 + 2", up to the call of table 1. *)
Step1Start(s0, p, img_file, description, answer, project_id, pat, resp, pre) ==
    LET s == SetDefaults(s0) IN
    IF get_client_raises(project_id, pat)
    THEN Ended(s, p, answer, "step1", "client_error", "none", pre)
    ELSE IF img_file = NoFile
    THEN Ended(s, p, answer, "step1", "no_image", "none", pre)
    ELSE IF strip(description) = ""
    THEN Ended(s, p, answer, "step1", "no_description", "none", pre)
    ELSE IF resp = "raise"
    THEN Raised(s, p, <<>>, "step1", "upload_error", "raised", pre, FALSE)
    ELSE LET img_uri == upload_to_jamai(img_file, resp)
             s1 == [s EXCEPT !.image_uri = img_uri, !.description = description]
         IN  [ss |-> s1, pc |-> "t1",
              calls |-> <<Call(1, Req1(img_uri, description))>>,
              last |-> Run("step1", "running", img_file, pre),
              dirty |-> Changed(s, s1), produced |-> p, root_cause |-> "",
              answer_box |-> answer]

(* app.py:218-260: the click on "Run Steps 3-5", up to the call of table 3. *)
(* The button only exists, and so only reads as clicked, while a clarifying *)
(* question is stored.                                                      *)
RestStart(s0, p, answer, project_id, pat, pre) ==
    LET s == SetDefaults(s0) IN
    IF s.clarifying_q = ""
    THEN Ended(s, p, answer, "none", "done", "none", pre)
    ELSE LET s1 == AnswerStep(s, answer)
         IN  IF strip(s1.user_answer) = ""
             THEN Ended(s, p, answer, "rest", "no_answer", "none", pre)
             ELSE IF get_client_raises(project_id, pat)
             THEN Ended(s, p, answer, "rest", "client_error", "none", pre)
             ELSE [ss |-> s1, pc |-> "t3", calls |-> <<Call(3, Req3(s1))>>,
                   last |-> Run("rest", "running", "none", pre),
                   dirty |-> FALSE, produced |-> p, root_cause |-> "",
                   answer_box |-> ""]

(* The assignments that follow the successful call of table k. *)
Stored(s, k, res) == StoreOutputs(s, k, call_action_table(res).columns)

ProducedBy(p, k, res) == StoreOutputs(p, k, call_action_table(res).columns)

(* app.py:180-215, 262-306: from the return of the call of table k to the *)
(* next call or to the end of the run.  A "Run Step 1 + 2" run has the    *)
(* answer box (app.py:218-229) still ahead of it, with the text ab in it; *)
(* a "Run Steps 3-5" run drew it before its first call.                   *)
Resume(s, p, cs, l, d, rc, ab, k, res) ==
    IF ~call_action_table(res).ok
    THEN Raised(s, p, cs, l.btn, "gateway_error", l.upload, l.preempted, d)
    ELSE LET s1 == Stored(s, k, res)
             p1 == ProducedBy(p, k, res)
             d1 == d \/ Changed(s, s1)
             blocked(j, data, local) ==
                 [ss |-> s1, pc |-> PcOf(j), calls |-> Append(cs, Call(j, data)),
                  last |-> l, dirty |-> d1, produced |-> p1, root_cause |-> local,
                  answer_box |-> ab]
             finished(s2) ==
                 [ss |-> s2, pc |-> "idle", calls |-> cs,
                  last |-> [l EXCEPT !.outcome = "done"], dirty |-> d1,
                  produced |-> p1, root_cause |-> "", answer_box |-> ""]
             local(key) == safe_text(ColsGet(call_action_table(res).columns, ColOfKey(k, key)))
         IN  CASE k = 1 -> blocked(2, Req2(local("crop_type"), local("initial_guess"),
                                           local("conf_problem")), "")
               [] k = 2 -> finished(AnswerStep(s1, ab))
               [] k = 3 -> blocked(4, Req4(s1, local("root_cause")), local("root_cause"))
               [] k = 4 -> blocked(5, Req5(s1, rc, local("recommended_solution")), rc)
               [] k = 5 -> finished(s1)


---------------------------------------------------------------------------
(* The session *)

(* The session state of a new browser session after the first run. *)
Init ==
    /\ ss = SetDefaults(<<>>)
    /\ pc = "idle"
    /\ calls = <<>>
    /\ last = Run("none", "done", "none", FALSE)
    /\ dirty = FALSE
    /\ produced = [key \in AllOutputKeys |-> ""]
    /\ root_cause = ""
    /\ answer_box = ""
    /\ pending = "none"

Apply(r) ==
    /\ pc' = r.pc
    /\ last' = r.last
    /\ ss' = r.ss
    /\ calls' = r.calls
    /\ dirty' = r.dirty
    /\ produced' = r.produced
    /\ root_cause' = r.root_cause
    /\ answer_box' = r.answer_box

(* The last run drew the answer box and the "Run Steps 3-5" button      *)
(* (app.py:218-231): a question is stored and the run reached them.  An *)
(* exception in the "Run Step 1 + 2" handler ends the run above them;   *)
(* one in the "Run Steps 3-5" handler ends it below them.               *)
RestOffered ==
    /\ pc = "idle"
    /\ ss.clarifying_q # ""
    /\ \/ last.outcome \notin {"upload_error", "gateway_error", "stopped"}
       \/ last.btn = "rest" /\ last.outcome = "gateway_error"

(* The user changes a widget other than a button: the script runs with no *)
(* button clicked.  Only a drawn answer box can deliver a new answer.     *)
Rerun(answer) ==
    /\ pc = "idle"
    /\ pending = "none"
    /\ RestOffered \/ answer = ss.user_answer
    /\ Apply(Ended(SetDefaults(ss), produced, answer, "none", "done", "none", FALSE))
    /\ UNCHANGED pending

(* The script runs for a click on "Run Step 1 + 2": a click made between *)
(* two runs, or the click that stopped the run before.  The run gets the *)
(* widget values of the page as they are at the click, among them the    *)
(* text of a drawn answer box.                                           *)
ClickStep1(img_file, description, answer, project_id, pat, resp) ==
    /\ pc = "idle"
    /\ pending \in {"none", "step1"}
    /\ (pending = "none" /\ RestOffered) \/ answer = ss.user_answer
    /\ Apply(Step1Start(ss, produced, img_file, description, answer, project_id, pat,
                        resp, pending # "none"))
    /\ pending' = "none"

(* The script runs for a click on "Run Steps 3-5". *)
ClickRest(answer, project_id, pat) ==
    /\ pc = "idle"
    /\ \/ pending = "none" /\ RestOffered
       \/ pending = "rest" /\ answer = ss.user_answer
    /\ Apply(RestStart(ss, produced, answer, project_id, pat, pending # "none"))
    /\ pending' = "none"

(* A button on the page is clicked while the call of table k is          *)
(* outstanding.  Streamlit does not interrupt the call: it notes the     *)
(* click and stops the run at its next Streamlit command.                *)
ClickWhileBlocked(btn) ==
    /\ pc # "idle"
    /\ pending = "none"
    /\ btn = "rest" => ss.clarifying_q # ""
    /\ pending' = btn
    /\ UNCHANGED <<ss, pc, calls, last, dirty, produced, root_cause, answer_box>>

(* The outstanding call of table k returns or raises, no click noted. *)
GatewayReturn(res) ==
    /\ pc # "idle"
    /\ pending = "none"
    /\ res \in GatewayResults(StageOfPc(pc))
    /\ Apply(Resume(ss, produced, calls, last, dirty, root_cause, answer_box,
                    StageOfPc(pc), res))
    /\ UNCHANGED pending

(* The outstanding call returns or raises with a click noted: after a    *)
(* return the outputs are assigned (session-state assignments are no     *)
(* Streamlit commands), then the run is stopped at the st.markdown or at *)
(* the end of the st.spinner block that follows.                         *)
Stopped(s, p, cs, l, d, k, res) ==
    IF ~call_action_table(res).ok
    THEN Raised(s, p, cs, l.btn, "gateway_error", l.upload, l.preempted, d)
    ELSE Raised(Stored(s, k, res), ProducedBy(p, k, res), cs, l.btn, "stopped",
                l.upload, l.preempted, d \/ Changed(s, Stored(s, k, res)))

GatewayReturnStopped(res) ==
    /\ pc # "idle"
    /\ pending # "none"
    /\ res \in GatewayResults(StageOfPc(pc))
    /\ Apply(Stopped(ss, produced, calls, last, dirty, StageOfPc(pc), res))
    /\ UNCHANGED pending

Uploads == Files \cup {NoFile}

AllResults == UNION {GatewayResults(k) : k \in Stages}

Next ==
    \/ \E answer \in AnswerTexts : Rerun(answer)
    \/ \E f \in Uploads, d \in DescriptionTexts, a \in AnswerTexts, cred \in Credentials,
          resp \in UploadResults : ClickStep1(f, d, a, cred[1], cred[2], resp)
    \/ \E a \in AnswerTexts, cred \in Credentials : ClickRest(a, cred[1], cred[2])
    \/ \E btn \in {"step1", "rest"} : ClickWhileBlocked(btn)
    \/ \E res \in AllResults : GatewayReturn(res)
    \/ \E res \in AllResults : GatewayReturnStopped(res)

Spec == Init /\ [][Next]_vars

TypeOK ==
    /\ DOMAIN ss = SessionKeys
    /\ pc \in {"idle", "t1", "t2", "t3", "t4", "t5"}
    /\ last.outcome \in Outcomes
    /\ dirty \in BOOLEAN
    /\ pending \in {"none", "step1", "rest"}


---------------------------------------------------------------------------
(* Notions the properties share *)

(* The tables called so far by the current/last run, in order. *)
CalledTables == [i \in 1..Len(calls) |-> calls[i].table]

(* A submit (the run of a button click) has just ended without a warning, *)
(* an error or an exception.                                              *)
SubmitSucceeded == pc = "idle" /\ last.btn # "none" /\ last.outcome = "done"

(* Some output of stage k is stored, i.e. is not the empty default. *)
HasOutputs(k) == \E key \in OutputKeySet(k) : ss[key] # ""

EmptyState == [key \in SessionKeys |-> ""]

---------------------------------------------------------------------------
(* C1: every successful submit advances the wizard by exactly one stage,  *)
(* i.e. a submit that succeeded has executed exactly one stage against    *)
(* the gateway.  (The statement of the claim; the code runs two or three  *)
(* stages per submit.)                                                    *)
C1_OneStagePerSubmit == SubmitSucceeded => Len(calls) = 1

(* C1, amended: a successful submit executes exactly the stages of its    *)
(* button, in order, each once: "Run Step 1 + 2" tables 1 and 2, "Run     *)
(* Steps 3-5" tables 3, 4 and 5; and a "Run Steps 3-5" submit only        *)
(* succeeds after stage 2 has produced a clarifying question, so the      *)
(* stages executed from a fresh session form the prefix 1..2 or 1..5.     *)
C1_StagesPerSubmit ==
    SubmitSucceeded =>
        /\ last.btn = "step1" => CalledTables = <<TABLE_DETECT, TABLE_FOLLOWUP>>
        /\ last.btn = "rest" =>
              /\ CalledTables = <<TABLE_CAUSES, TABLE_SOLUTION, TABLE_FINAL>>
              /\ produced.clarifying_q # ""
        /\ \A key \in AllOutputKeys :
              (key \in OutputKeySet(1) \cup OutputKeySet(2) \/ last.btn = "rest")
                  => ss[key] = produced[key]

C1_Witness ==
    /\ SubmitSucceeded
    /\ last.btn = "rest"
    /\ Len(calls) = 3
    /\ \A k \in Stages : HasOutputs(k)

(* C2: after a "Run Step 1 + 2" submit has succeeded the case stands at   *)
(* stage 2 (the answer is awaited), so no output of stage 3, 4 or 5 is    *)
(* stored.  (The statement of the claim; the code keeps the outputs of an *)
(* earlier pass.)                                                         *)
C2_NoOutputsBeyondCurrentStage ==
    (SubmitSucceeded /\ last.btn = "step1") => \A k \in 3..5 : ~HasOutputs(k)

(* C3: a submit whose gateway call raised has changed neither a session   *)
(* input nor a stored output.  (The statement of the claim; the code has  *)
(* stored image_uri and description before table 1 is called, and the     *)
(* outputs of a table before the next one is called.)                     *)
C3_FailedSubmitIsAtomic ==
    (pc = "idle" /\ last.outcome = "gateway_error") => ~dirty


(* C4: a submit with a missing or blank required input is rejected        *)
(* without effect: between two runs, whatever the session holds, the run  *)
(* of a click on "Run Step 1 + 2" with no image or with a blank           *)
(* description, and the run of a click on "Run Steps 3-5" with a blank    *)
(* answer, ends at once, uploads nothing, calls no table and changes no   *)
(* session input and no output.                                           *)
C4_NoEffect(r) ==
    /\ r.pc = "idle"
    /\ r.calls = <<>>
    /\ r.last.upload = "none"
    /\ \A key \in SessionInputKeys \cup AllOutputKeys : r.ss[key] = ss[key]

C4_RejectedWithoutEffect ==
    pc = "idle" =>
        /\ \A f \in Uploads, d \in DescriptionTexts, a \in AnswerTexts,
              cred \in Credentials, resp \in UploadResults :
              (f = NoFile \/ d \in Whitespace) =>
                  C4_NoEffect(Step1Start(ss, produced, f, d, a, cred[1], cred[2], resp,
                                         pending # "none"))
        /\ \A a \in Whitespace, cred \in Credentials :
              C4_NoEffect(RestStart(ss, produced, a, cred[1], cred[2], pending # "none"))

C4_Witness ==
    /\ pc = "idle"
    /\ last.btn = "step1"
    /\ last.outcome = "no_description"
    /\ ss.image_uri # ""
    /\ HasOutputs(1)

(* C5: carry-forward is exact: the request of each of the stages 2..5     *)
(* has exactly the declared input names, and each carried input has the   *)
(* value its source stage produced at its most recent successful          *)
(* completion, or the stored session input or answer.                     *)
C5_Declared(table) ==
    CASE table = TABLE_FOLLOWUP ->
            {"Crop Type", "Initial Problem Guess", "Confidence Score Problem"}
      [] table = TABLE_CAUSES ->
            {"Crop Type", "Initial Problem Guess", "User Answer", "Description"}
      [] table = TABLE_SOLUTION ->
            {"Crop Type", "Root Cause", "Initial Problem Guess", "User Answer"}
      [] table = TABLE_FINAL ->
            {"Crop Type", "Root Cause", "Users Answer", "Recommended Solution"}

C5_Source(name) ==
    CASE name = "Crop Type"                -> produced.crop_type
      [] name = "Initial Problem Guess"    -> produced.initial_guess
      [] name = "Confidence Score Problem" -> produced.conf_problem
      [] name = "Root Cause"               -> produced.root_cause
      [] name = "Recommended Solution"     -> produced.recommended_solution
      [] name = "User Answer"              -> ss.user_answer
      [] name = "Users Answer"             -> ss.user_answer
      [] name = "Description"              -> ss.description

C5_CarryForwardExact ==
    \A i \in 1..Len(calls) :
        calls[i].table # TABLE_DETECT =>
            /\ DOMAIN calls[i].data = C5_Declared(calls[i].table)
            /\ \A name \in C5_Declared(calls[i].table) :
                  calls[i].data[name] = C5_Source(name)

C5_Witness ==
    /\ pc = "t5"
    /\ Len(calls) = 3
    /\ calls[3].table = TABLE_FINAL
    /\ calls[3].data["Root Cause"] # ""
    /\ calls[3].data["Recommended Solution"] # ""
    /\ calls[3].data["Crop Type"] = ""

(* C6: referential order: the request of stage k holds only session       *)
(* inputs, the user's answer and outputs of stages before k; no value in  *)
(* it is an output of stage k or of a later stage.                        *)
C6_StageOf(table) ==
    CASE table = TABLE_DETECT   -> 1
      [] table = TABLE_FOLLOWUP -> 2
      [] table = TABLE_CAUSES   -> 3
      [] table = TABLE_SOLUTION -> 4
      [] table = TABLE_FINAL    -> 5

C6_OutputTexts(k) == {TextOf(c) : c \in Range(OutputCols(k))}

C6_FromStageOrLater(k) == UNION {C6_OutputTexts(j) : j \in k..5}

C6_ReferentialOrder ==
    \A i \in 1..Len(calls) :
        \A name \in DOMAIN calls[i].data :
            calls[i].data[name] \notin C6_FromStageOrLater(C6_StageOf(calls[i].table))

C6_Witness ==
    /\ pc = "t3"
    /\ calls[1].table = TABLE_CAUSES
    /\ calls[1].data["Initial Problem Guess"] # ""
    /\ HasOutputs(3)
    /\ HasOutputs(5)


(* C7: the session inputs image_uri and description are captured once:    *)
(* once stage 1 has completed (it has stored outputs), no later step      *)
(* changes them.  (The statement of the claim; the code captures them     *)
(* anew at every accepted "Run Step 1 + 2" submit.)                       *)
C7_CapturedOnce ==
    [][HasOutputs(1) =>
          /\ ss'.image_uri = ss.image_uri
          /\ ss'.description = ss.description]_vars

(* C7, amended: the session inputs are written only at the start of a     *)
(* "Run Step 1 + 2" submit that passed validation and whose upload did    *)
(* not raise, together with the call of table 1 that carries them; every  *)
(* such submit overwrites them, and no other step (a rerun, a rejected    *)
(* submit, a "Run Steps 3-5" submit, the return of a call) changes them.  *)
C7_CapturedOnlyByStep1Submit ==
    [][(ss'.image_uri # ss.image_uri \/ ss'.description # ss.description) =>
          /\ pc = "idle"
          /\ pc' = "t1"
          /\ last'.btn = "step1"
          /\ last'.upload \in Files
          /\ ss'.description \notin Whitespace
          /\ Len(calls') = 1
          /\ calls'[1].table = TABLE_DETECT
          /\ calls'[1].data["Crop Image"] = ss'.image_uri
          /\ calls'[1].data["Description"] = ss'.description]_vars

C7_Witness ==
    /\ pc = "t1"
    /\ dirty
    /\ HasOutputs(1)
    /\ HasOutputs(3)

(* C8: the completed wizard is terminal: right after the submit that      *)
(* completed stage 5, no step issues a gateway call or changes a stored   *)
(* output.  (The statement of the claim; the code accepts both submits    *)
(* again.)                                                                *)
C8_Terminal ==
    [][(SubmitSucceeded /\ last.btn = "rest") =>
          /\ pc' = "idle"
          /\ \A key \in AllOutputKeys : ss'[key] = ss[key]]_vars

(* C8, amended: the completed wizard is not terminal.  Once every stage   *)
(* has stored outputs both submits are still accepted; a call that is     *)
(* outstanding then belongs to the button of the running submit (tables   *)
(* 1-2 for "Run Step 1 + 2", tables 3-5 for "Run Steps 3-5"), and the     *)
(* outputs of a stage change only when the call of its own table returns. *)
C8_AllStored == \A k \in Stages : HasOutputs(k)

C8_SubmitsKeepToTheirStages ==
    [][C8_AllStored =>
          /\ pc' \in {"t1", "t2"} => last'.btn = "step1"
          /\ pc' \in {"t3", "t4", "t5"} => last'.btn = "rest"
          /\ \A k \in Stages : \A key \in OutputKeySet(k) :
                ss'[key] # ss[key] => pc = PcOf(k)]_vars

C8_Witness ==
    /\ pc = "t4"
    /\ last.btn = "rest"
    /\ ss.summary # ""
    /\ ss.root_cause = ""
    /\ HasOutputs(4)

(* C9: a reset is available in every reachable state: some step leads to  *)
(* the initial session state with the script idle.  (The statement of the *)
(* claim; the code has no reset.)                                         *)
C9_ResetStep == Next /\ ss' = EmptyState /\ pc' = "idle"

C9_ResetAvailable == ENABLED C9_ResetStep

(* C9, amended: there is no reset operation.  The session is in its       *)
(* initial state (no session inputs, no stored outputs) only until the    *)
(* first accepted "Run Step 1 + 2" submit; after that no step returns it  *)
(* to the initial state, and the initialisation at the top of every run   *)
(* leaves every stored value alone.                                       *)
C9_InitialStateNeverReentered == [][ss # EmptyState => ss' # EmptyState]_vars

C9_Witness ==
    /\ pc = "idle"
    /\ last.btn = "none"
    /\ last.outcome = "done"
    /\ ~last.preempted
    /\ ss.description # ""
    /\ HasOutputs(5)

(* C10: a submit issued while the gateway call of the submit before it is *)
(* outstanding is rejected: the run of such a click calls no table and    *)
(* changes nothing.  (The statement of the claim; the code has no such    *)
(* rejection, the click is run once the outstanding call has returned.)   *)
C10_SecondSubmitRejected ==
    last.preempted => (pc = "idle" /\ calls = <<>> /\ ~dirty)

C12_FailedStage == IF last.btn = "step1" THEN Len(calls) ELSE 2 + Len(calls)

C12_AfterFailure == pc = "idle" /\ last.outcome = "gateway_error"

C12_RetryAtFailedStage ==
    [][(C12_AfterFailure /\ pc' # "idle" /\ last'.btn = last.btn) =>
          pc' = PcOf(C12_FailedStage)]_vars

(* C12, amended: a gateway failure is recoverable by submitting again.    *)
(* The failing call ends the run and changes nothing in the session, so   *)
(* the outputs stored by the stages before k are kept; the next submit    *)
(* that reaches the gateway leaves every stored output alone and starts   *)
(* with the first stage of its button: table 1 for "Run Step 1 + 2",      *)
(* table 3 for "Run Steps 3-5".  After a failure of stage 2, 4 or 5 the   *)
(* completed stages of the button are therefore called again.             *)
C12_RetryRestartsButton ==
    [][/\ (pc # "idle" /\ last'.outcome = "gateway_error") =>
             /\ pc' = "idle"
             /\ ss' = ss
       /\ (C12_AfterFailure /\ pc' # "idle") =>
             /\ pc' = IF last'.btn = "step1" THEN "t1" ELSE "t3"
             /\ Len(calls') = 1
             /\ calls'[1].table = IF last'.btn = "step1" THEN TABLE_DETECT ELSE TABLE_CAUSES
             /\ \A key \in AllOutputKeys : ss'[key] = ss[key]]_vars

C12_Witness ==
    /\ C12_AfterFailure
    /\ pending = "none"
    /\ last.btn = "rest"
    /\ C12_FailedStage = 4
    /\ ss.root_cause # ""
    /\ ENABLED (\E a \in AnswerTexts, cred \in Credentials :
                    ClickRest(a, cred[1], cred[2]) /\ pc' = "t3")

(* C13: no stage is invoked with an unpopulated carried input: in the     *)
(* request of each of the stages 2..5 every input carried from a stage    *)
(* output or from the session inputs (every input but the user's answer)  *)
(* is non-empty.  (The statement of the claim; the code resolves nothing  *)
(* and sends the empty text of an absent output field on.)                *)
C13_UserSupplied == {"User Answer", "Users Answer"}

C13_CarriedInputsPopulated ==
    \A i \in 1..Len(calls) :
        calls[i].table # TABLE_DETECT =>
            \A name \in DOMAIN calls[i].data \ C13_UserSupplied :
                calls[i].data[name] # ""

(* C14: for every stage and every row the gateway returns, each declared  *)
(* output is stored as the text of its column when the column is present  *)
(* with a text, and as the empty string when the column is absent or has  *)
(* no text; the run does not end in an error and the other outputs of the *)
(* stage are stored all the same.                                         *)
C14_Expected(columns, col) ==
    IF col \in DOMAIN columns /\ columns[col].text \notin {NoneText, ""}
    THEN columns[col].text
    ELSE ""

C14_AbsentFieldsStoredEmpty ==
    [][\A res \in AllResults :
          (/\ pc # "idle"
           /\ res \in GatewayResults(StageOfPc(pc))
           /\ res.kind = "rows"
           /\ Len(res.rows) > 0
           /\ GatewayReturn(res) \/ GatewayReturnStopped(res)) =>
              /\ last'.outcome # "gateway_error"
              /\ \A i \in 1..Len(OutputKeys(StageOfPc(pc))) :
                    ss'[OutputKeys(StageOfPc(pc))[i]] =
                        C14_Expected(res.rows[1], OutputCols(StageOfPc(pc))[i])]_vars

C14_Witness ==
    /\ pc = "t2"
    /\ ss.crop_type = ""
    /\ ss.initial_guess = TextOf("Initial Problem Guess")
    /\ ss.conf_problem = ""
    /\ calls[2].data["Initial Problem Guess"] = TextOf("Initial Problem Guess")

(* C15: an artifact upload failure blocks progression: between two runs,  *)
(* whatever the session holds, the run of a click on "Run Step 1 + 2"     *)
(* whose upload raises calls no table and leaves the session inputs and   *)
(* every stage output as they were; with valid inputs the run ends in the *)
(* upload's exception and has changed nothing at all.                     *)
C15_UploadFailureBlocks ==
    pc = "idle" =>
        \A f \in Uploads, d \in DescriptionTexts, a \in AnswerTexts, cred \in Credentials :
            LET r == Step1Start(ss, produced, f, d, a, cred[1], cred[2], "raise",
                                pending # "none")
            IN  /\ r.pc = "idle"
                /\ r.calls = <<>>
                /\ \A key \in SessionInputKeys \cup AllOutputKeys : r.ss[key] = ss[key]
                /\ (f \in Files /\ d \notin Whitespace /\ ~get_client_raises(cred[1], cred[2]))
                      => (r.last.outcome = "upload_error" /\ r.ss = ss)

C15_Witness ==
    /\ pc = "idle"
    /\ last.btn = "step1"
    /\ last.outcome = "upload_error"
    /\ calls = <<>>
    /\ ss.image_uri # ""
    /\ HasOutputs(2)

(* C16: within one submit the gateway calls are issued strictly in stage  *)
(* order, each only after the call before it has returned a row in the    *)
(* same run: a run's first call is that of table 1 or table 3, and the    *)
(* call of table k+1 is issued in the step in which the call of table k   *)
(* returns a row (k = 1, 3, 4).  When the call of stage k raises or       *)
(* returns no row, the run ends there: no further call is issued and      *)
(* nothing stored changes.  The outputs of a stage change only in the     *)
(* step in which the call of its own table returns, so after a failure of *)
(* stage k the outputs of stage k and of the later stages are those from  *)
(* before the run.                                                        *)
C16_Failed(res) == res.kind = "raise" \/ Len(res.rows) = 0

C16_Returns(res) ==
    /\ pc # "idle"
    /\ res \in GatewayResults(StageOfPc(pc))
    /\ GatewayReturn(res) \/ GatewayReturnStopped(res)

C16_CallsInStageOrder ==
    [][/\ (pc' # "idle" /\ pc' # pc) =>
             \/ /\ pc = "idle"
                /\ pc' \in {"t1", "t3"}
                /\ Len(calls') = 1
                /\ C6_StageOf(calls'[1].table) = StageOfPc(pc')
             \/ /\ pc \in {"t1", "t3", "t4"}
                /\ pc' = PcOf(StageOfPc(pc) + 1)
                /\ Len(calls') = Len(calls) + 1
                /\ \A i \in 1..Len(calls) : calls'[i] = calls[i]
                /\ C6_StageOf(calls'[Len(calls')].table) = StageOfPc(pc')
                /\ \E res \in AllResults : ~C16_Failed(res) /\ C16_Returns(res)
       /\ \A res \in AllResults :
             (C16_Failed(res) /\ C16_Returns(res)) =>
                 /\ pc' = "idle"
                 /\ calls' = calls
                 /\ ss' = ss
       /\ \A k \in Stages : \A key \in OutputKeySet(k) :
             ss'[key] # ss[key] => pc = PcOf(k)]_vars

C16_Witness ==
    /\ pc = "idle"
    /\ pending = "none"
    /\ last.btn = "rest"
    /\ last.outcome = "gateway_error"
    /\ CalledTables = <<TABLE_CAUSES, TABLE_SOLUTION, TABLE_FINAL>>
    /\ ss.recommended_solution = ""
    /\ ss.summary # ""

(* C17: progress after stage 2: whenever a "Run Step 1 + 2" submit ends   *)
(* with the calls of tables 1 and 2 both answered, the page of that run   *)
(* offers the answer box and the "Run Steps 3-5" button, whatever table 2 *)
(* has answered.  (The statement of the claim; the code offers them only  *)
(* when the stored clarifying question is non-empty.)                     *)
C17_RestOfferedAfterStage2 ==
    (SubmitSucceeded /\ last.btn = "step1" /\ pending = "none") => RestOffered

(* C18: frame of the "Run Step 1 + 2" submit: no step of such a submit    *)
(* (the run of the click up to the call of table 1, the return of the     *)
(* call of table 1 or of table 2) changes user_answer or an output of the *)
(* stages 3-5.  (The statement of the claim; the run also draws the       *)
(* answer box and stores the text it holds.)                              *)
C18_Step1Step == (pc = "idle" /\ last'.btn = "step1") \/ pc \in {"t1", "t2"}

C18_LaterOutputKeys == OutputKeySet(3) \cup OutputKeySet(4) \cup OutputKeySet(5)

C18_FrameWithAnswer ==
    [][C18_Step1Step =>
          /\ ss'.user_answer = ss.user_answer
          /\ \A key \in C18_LaterOutputKeys : ss'[key] = ss[key]]_vars

(* C18, amended: a "Run Step 1 + 2" submit changes at most image_uri,     *)
(* description, the outputs of the stages 1-2 and user_answer; it leaves  *)
(* the outputs of the stages 3-5 unchanged.  user_answer changes only in  *)
(* the step that ends a run without an exception while a clarifying       *)
(* question is stored: the run then draws the answer box and stores the   *)
(* text the user has in it.                                               *)
C18_FrameOfStep1Submit ==
    [][C18_Step1Step =>
          /\ \A key \in C18_LaterOutputKeys : ss'[key] = ss[key]
          /\ ss'.user_answer # ss.user_answer =>
                /\ pc' = "idle"
                /\ last'.outcome \in {"done", "client_error", "no_image", "no_description"}
                /\ ss'.clarifying_q # ""
                /\ ss'.user_answer \in AnswerTexts
                /\ pc = "idle" \/ ss'.user_answer = answer_box]_vars

C18_Witness ==
    /\ SubmitSucceeded
    /\ last.btn = "step1"
    /\ dirty
    /\ ss.user_answer \in Whitespace
    /\ ss.clarifying_q # ""
    /\ \A k \in 3..5 : HasOutputs(k)

(* C19: stage 1 is only ever invoked with a real artifact reference: in   *)
(* every run that has called table 1, the "Crop Image" input is the       *)
(* non-empty reference of the file uploaded in that run, and the stored   *)
(* image_uri is not empty.  (The statement of the claim; the code takes   *)
(* the empty default of a response without a uri and goes on.)            *)
C19_RealArtifactReference ==
    \A i \in 1..Len(calls) :
        calls[i].table = TABLE_DETECT =>
            /\ last.upload \in Files
            /\ calls[i].data["Crop Image"] = UriOf(last.upload)
            /\ calls[i].data["Crop Image"] # ""
            /\ ss.image_uri # ""

=============================================================================
